---- MODULE Spec2Model ----
(***************************************************************************)
(* The file vault of src/app.py: the Flask handlers upload_file,           *)
(* download_file, preview_file, delete_file and home, the helpers they     *)
(* call, and the two directories (uploads/, metadata/) they share.         *)
(*                                                                         *)
(* A string is a sequence of one-character strings.  A directory maps a    *)
(* file name to an inode number; an inode table maps the number to the     *)
(* file's content, so that a file unlinked while it is open keeps its      *)
(* content for the handler that holds it.  Every handler is cut into one   *)
(* step per file-system call, and the handlers of different clients        *)
(* interleave at those steps.                                              *)
(***************************************************************************)
EXTENDS Integers, Sequences, FiniteSets, TLC

\* ------------------------------------------------------------------ bounds
\* The clock advances at most MaxTime times.
MaxTime == 1
\* Requests started, over all clients.
MaxOps == 2
\* File-system calls that fail with an OSError.
MaxFaults == 1

Clients == {"c1", "c2"}

\* ------------------------------------------------------------ configuration
UPLOAD_FOLDER == "uploads"
METADATA_FOLDER == "metadata"
MAX_FILE_SIZE == 16 * 1024 * 1024
ALLOWED_EXTENSIONS ==
  { <<"t","x","t">>, <<"p","d","f">>, <<"d","o","c">>, <<"d","o","c","x">>,
    <<"p","n","g">>, <<"j","p","g">>, <<"j","p","e","g">> }
ADMIN_ROLE == "Game.Lead.Admin"
VIEWER_ROLE == "Game.Tester.Player"

\* ------------------------------------------------------------------ strings
Range(f) == { f[x] : x \in DOMAIN f }

LowerCase == <<"a","b","c","d","e","f","g","h","i","j","k","l","m",
               "n","o","p","q","r","s","t","u","v","w","x","y","z">>
UpperCase == <<"A","B","C","D","E","F","G","H","I","J","K","L","M",
               "N","O","P","Q","R","S","T","U","V","W","X","Y","Z">>
Digits == <<"0","1","2","3","4","5","6","7","8","9">>
\* str.lower on one character.
LowerChar(ch) ==
  IF \E i \in 1..26 : UpperCase[i] = ch
    THEN LowerCase[CHOOSE i \in 1..26 : UpperCase[i] = ch]
    ELSE ch
Lower(s) == [ i \in 1..Len(s) |-> LowerChar(s[i]) ]

\* The index of the last occurrence of ch in s, 0 when there is none.
LastIndex(s, ch) ==
  IF \E i \in 1..Len(s) : s[i] = ch
    THEN CHOOSE i \in 1..Len(s) : s[i] = ch /\ \A j \in (i+1)..Len(s) : s[j] # ch
    ELSE 0
\* s.rsplit('.', 1)[1] for a string that holds a '.'.
RSplitExt(s) == SubSeq(s, LastIndex(s, ".") + 1, Len(s))
\* sub in s
Contains(s, sub) ==
  \E i \in 1..(Len(s) - Len(sub) + 1) : SubSeq(s, i, i + Len(sub) - 1) = sub
\* s.split(ch)[0]
SplitHead(s, ch) ==
  IF \E i \in 1..Len(s) : s[i] = ch
    THEN SubSeq(s, 1, (CHOOSE i \in 1..Len(s) : s[i] = ch /\ \A j \in 1..(i-1) : s[j] # ch) - 1)
    ELSE s

allowed_file(filename) ==
  /\ \E i \in 1..Len(filename) : filename[i] = "."
  /\ Lower(RSplitExt(filename)) \in ALLOWED_EXTENSIONS

\* werkzeug's _filename_ascii_strip_re keeps [A-Za-z0-9_.-].
SafeChars == Range(LowerCase) \cup Range(UpperCase) \cup Range(Digits) \cup {"_", ".", "-"}

RECURSIVE StripLeft(_, _), StripRight(_, _), JoinWords(_, _, _)
StripLeft(s, set) ==
  IF s # <<>> /\ Head(s) \in set THEN StripLeft(Tail(s), set) ELSE s
StripRight(s, set) ==
  IF s # <<>> /\ s[Len(s)] \in set THEN StripRight(SubSeq(s, 1, Len(s) - 1), set) ELSE s
\* "_".join(s.split()): each run of blanks between two words becomes one "_".
JoinWords(s, started, gap) ==
  IF s = <<>> THEN <<>>
  ELSE IF Head(s) = " " THEN JoinWords(Tail(s), started, TRUE)
  ELSE (IF started /\ gap THEN <<"_">> ELSE <<>>) \o <<Head(s)>>
       \o JoinWords(Tail(s), TRUE, FALSE)

\* werkzeug.utils.secure_filename: path separators become blanks, the words
\* are joined by "_", every character outside [A-Za-z0-9_.-] is dropped, and
\* dots and underscores are stripped from both ends.
secure_filename(filename) ==
  LET blanks == [ i \in 1..Len(filename) |->
                    IF filename[i] = "/" THEN " " ELSE filename[i] ]
      joined == JoinWords(blanks, FALSE, FALSE)
      kept   == SelectSeq(joined, LAMBDA ch : ch \in SafeChars)
  IN  StripRight(StripLeft(kept, {".", "_"}), {".", "_"})

\* ------------------------------------------------------------------- inputs
AL == <<"a","l","@","x">>
\* The address auth_callback gives the admin role whatever the token says.
FORCED_ADMIN_EMAIL ==
  <<"s","h","i","l","p","a",".","s","u","r","e","s","h","k","u","m","a","r",
    "@","o","u","t","l","o","o","k",".","c","o","m">>
\* An address whose part before the @ is a path.
SLASHED == <<".",".","/","a","@","x">>
ClaimEmails == { AL, FORCED_ADMIN_EMAIL, SLASHED }
ClaimRoles == { {}, {ADMIN_ROLE}, {VIEWER_ROLE}, {"Other.Role"} }
\* The tokens of the users who are logged in when the vault starts.
StartRoles == { {ADMIN_ROLE}, {VIEWER_ROLE} }

Filenames ==
  { <<"r",".","p","d","f">>, <<".",".","/","r",".","p","d","f">>,
    <<"n",".","D","O","C","X">>, <<"x",".","e","x","e">>, <<>> }
Contents == { <<1>>, <<2, 3>> }
NoFile == [ filename |-> <<"-">>, content |-> <<>>, present |-> FALSE, content_length |-> 0 ]
\* A request body over the limit: content holds its first byte only, the
\* Content-Length header says how long it is.
TooLarge ==
  [ filename |-> <<"r",".","p","d","f">>, content |-> <<1>>, present |-> TRUE,
    content_length |-> MAX_FILE_SIZE + 1 ]
\* The uploads: each allowed name with each content, each other name once,
\* one body over the limit, and a form without a file part.
Files ==
  { [ filename |-> f, content |-> b, present |-> TRUE, content_length |-> Len(b) ] :
      f \in { g \in Filenames : allowed_file(g) }, b \in Contents }
    \cup { [ filename |-> f, content |-> <<1>>, present |-> TRUE, content_length |-> 1 ] :
             f \in { g \in Filenames : ~allowed_file(g) } }
    \cup { TooLarge, NoFile }

\* -------------------------------------------------------------------- state
VARIABLES
  now,         \* the clock: [sec, usec]
  session,     \* per client: the session cookie's "user", or NoUser
  uploads,     \* the directory UPLOAD_FOLDER: file name -> inode
  metadata,    \* the directory METADATA_FOLDER: key (file name less ".json") -> inode
  blobInodes,  \* inode -> bytes
  metaInodes,  \* inode -> the text of a JSON file: [len, val]
  pc,          \* per client: where its handler stands
  req,         \* per client: the request being served (or served last)
  loc,         \* per client: the handler's local variables
  resp,        \* per client: the response to the last request served
  ops,         \* requests received so far
  faults,      \* file-system calls that have failed so far
  ghost        \* what has happened, for the properties to speak of (not program state)

vars == << now, session, uploads, metadata, blobInodes, metaInodes,
           pc, req, loc, resp, ops, faults, ghost >>

Epoch == [ sec |-> 0, usec |-> 0 ]
NoUser == [ preferred_username |-> <<>>, roles |-> {}, present |-> FALSE ]
NoClaims == [ granted |-> FALSE, email |-> <<>>, roles |-> {} ]
NoReq == [ op |-> "none", file |-> NoFile, key |-> <<>>, claims |-> NoClaims ]
NoLoc == [ filename |-> <<>>, original_filename |-> <<>>, fd |-> 0,
           upload_date |-> Epoch, size |-> 0, md |-> <<>>, todo |-> <<>>, all_files |-> <<>> ]
\* What a handler returns: the status, the handler's message or JSON body, and
\* for send_file the bytes, the download name and the content type.
Response(status, text) ==
  [ status |-> status, text |-> text, body |-> <<>>, content_length |-> 0,
    download_name |-> <<>>, mimetype |-> "", attachment |-> FALSE, files |-> <<>>,
    json |-> FALSE, success |-> FALSE ]
NoResp == Response(0, "")
Redirect == Response(302, "home")

\* ---------------------------------------------------------- the file system
Put(f, k, v) == [ x \in DOMAIN f \cup {k} |-> IF x = k THEN v ELSE f[x] ]
Drop(f, k) == [ x \in DOMAIN f \ {k} |-> f[x] ]
Restrict(f, S) == [ x \in DOMAIN f \cap S |-> f[x] ]
Empty == [ x \in {} |-> 0 ]

\* The inode a new file gets: the least number no directory entry and no open
\* file holds.
FreeInode(table) == CHOOSE n \in 1..(Cardinality(DOMAIN table) + 1) : n \notin DOMAIN table

\* A write of `new` at offset 0 over `old`: what lies beyond it stays.
Overlay(old, new) == new \o SubSeq(old, Len(new) + 1, Len(old))

\* The text of a JSON file, by its length and what json.load makes of it.
NoJson == [ filename |-> <<>>, original_filename |-> <<>>, user_email |-> <<>>,
            upload_date |-> Epoch, size |-> 0, parses |-> FALSE ]
EmptyText == [ len |-> 0, val |-> NoJson ]
RECURSIVE DecimalLen(_)
DecimalLen(n) == IF n < 10 THEN 1 ELSE 1 + DecimalLen(n \div 10)
\* json.dump's text: its length varies with the strings and the digits of size.
JsonText(md) ==
  [ len |-> Len(md.filename) + Len(md.original_filename) + Len(md.user_email)
              + DecimalLen(md.size) + 1,
    val |-> md ]
\* Text written at offset 0 over longer text leaves its tail: no longer JSON.
OverlayText(old, new) ==
  IF new.len >= old.len THEN new ELSE [ len |-> old.len, val |-> NoJson ]

\* The inodes that the handlers of the clients in `who` hold open.
OpenBlobs(who) == { loc[d].fd : d \in { e \in who : pc[e] \in {"u_write", "s_read"} } }
OpenMetas(who) == { loc[d].fd : d \in { e \in who : pc[e] = "m_dump" } }
\* An unlinked inode lives while a handler holds it open.
Collect(table, dir, open) == Restrict(table, Range(dir) \cup open)

\* The record json.load gives for the key, when the file is there and parses.
HasRecord(k) == k \in DOMAIN metadata /\ metaInodes[metadata[k]].val.parses
RecordOf(k) == metaInodes[metadata[k]].val
HasBlob(k) == k \in DOMAIN uploads
BlobOf(k) == blobInodes[uploads[k]]

\* -------------------------------------------------------------------- ghost
\* uploaded: the uploads that answered success, [key, filename, content], less
\*   those whose key a delete has removed a file of since;
\* deleted: the keys a delete answered success for, less those an upload has
\*   written metadata for since;
\* per client, for the request it is serving or served last: expect, the
\*   uploaded entries of the key it asks for, and after, the deleted keys, both
\*   as the request came in (less the keys removed or written since);
\*   undisturbed, that no metadata file changed since home listed the
\*   directory; removed, the folders delete_file has removed its file from;
\* began: the keys upload_file has set out to write;
\* alone: per client, that no other client has had a request under way since
\*   its own came in.
NoGhost ==
  [ uploaded |-> {}, deleted |-> {}, began |-> {},
    alone |-> [ c \in Clients |-> FALSE ],
    expect |-> [ c \in Clients |-> {} ], after |-> [ c \in Clients |-> {} ],
    undisturbed |-> [ c \in Clients |-> FALSE ], removed |-> [ c \in Clients |-> {} ] ]
MetaChanged(g) == [ g EXCEPT !.undisturbed = [ c \in Clients |-> FALSE ] ]
KeyWritten(g, k) ==
  [ g EXCEPT !.deleted = @ \ {k}, !.after = [ c \in Clients |-> @[c] \ {k} ] ]
KeyRemoved(g, k) ==
  [ g EXCEPT !.uploaded = { u \in @ : u.key # k },
             !.expect = [ c \in Clients |-> { u \in @[c] : u.key # k } ] ]

\* ------------------------------------------------------------------ helpers
get_user_roles(user_data) == user_data.roles
\* is_admin with is_viewer's test.
is_admin_lax(user_data) ==
  VIEWER_ROLE \in get_user_roles(user_data) \/ ADMIN_ROLE \in get_user_roles(user_data)
is_admin(user_data) == ADMIN_ROLE \in get_user_roles(user_data)
is_viewer(user_data) ==
  VIEWER_ROLE \in get_user_roles(user_data) \/ ADMIN_ROLE \in get_user_roles(user_data)

\* strftime("%Y%m%d_%H%M%S"): the clock cut to whole seconds.
Timestamp(t) == << ToString(t.sec) >>
\* isoformat() strings compare as the instants do.
DateLE(a, b) == a.sec < b.sec \/ (a.sec = b.sec /\ a.usec <= b.usec)
\* f"{user_prefix}_{timestamp}_{original_filename}"
StorageKey(user, t, original_filename) ==
  SplitHead(user.preferred_username, "@") \o <<"_">> \o Timestamp(t)
    \o <<"_">> \o original_filename

Idle(c) == pc[c] = "idle"
\* The handler of the request `op` is entered.
Enter(c, op) == pc[c] = "recv" /\ req[c].op = op
\* The handler returns r.
ReturnG(c, r, g) ==
  /\ pc' = [pc EXCEPT ![c] = "idle"]
  /\ loc' = [loc EXCEPT ![c] = NoLoc]
  /\ resp' = [resp EXCEPT ![c] = r]
  /\ ghost' = g
Return(c, r) == ReturnG(c, r, ghost)
\* The handler goes on at `label` with the locals l.
GotoG(c, label, l, g) ==
  /\ pc' = [pc EXCEPT ![c] = label]
  /\ loc' = [loc EXCEPT ![c] = l]
  /\ resp' = resp
  /\ ghost' = g
Goto(c, label, l) == GotoG(c, label, l, ghost)
\* An exception no handler catches: Flask answers 500.
Unhandled == Response(500, "Internal Server Error")
\* A file-system call fails with an OSError.
CanFail == faults < MaxFaults
Disk == << uploads, metadata, blobInodes, metaInodes >>

\* --------------------------------------------------------------- the clock
\* Time passes within the second, or the next second begins.
Tick ==
  /\ now.sec + now.usec < MaxTime
  /\ \/ now' = [now EXCEPT !.usec = @ + 1]
     \/ now' = [ sec |-> now.sec + 1, usec |-> 0 ]
  /\ UNCHANGED << session, Disk, pc, req, loc, resp, ops, faults, ghost >>

\* ------------------------------------------------------------- the requests
\* A request reaches an idle client's worker.
request(c, r) ==
  /\ Idle(c)
  /\ ops < MaxOps
  /\ ops' = ops + 1
  /\ req' = [req EXCEPT ![c] = r]
  /\ pc' = [pc EXCEPT ![c] = "recv"]
  /\ resp' = [resp EXCEPT ![c] = NoResp]
  /\ ghost' = [ghost EXCEPT
       !.expect[c] = IF r.op = "download" THEN { u \in ghost.uploaded : u.key = r.key } ELSE {},
       !.after[c] = IF r.op \in {"download", "list"} THEN ghost.deleted ELSE {},
       !.undisturbed[c] = FALSE,
       !.removed[c] = {},
       !.alone = [ d \in Clients |-> d = c /\ \A e \in Clients \ {c} : pc[e] = "idle" ]]
  /\ UNCHANGED << now, session, Disk, loc, faults >>

\* ------------------------------------------------------------ auth_callback
\* The roles the session gets from the token's claims.
SessionRoles(email, roles) ==
  IF Contains(Lower(email), FORCED_ADMIN_EMAIL) THEN {ADMIN_ROLE}
  ELSE IF roles = {} THEN {VIEWER_ROLE}
  ELSE roles

\* The session auth_callback leaves for a token's claims.
SessionFor(email, roles) ==
  [ preferred_username |-> email, roles |-> SessionRoles(email, roles), present |-> TRUE ]

auth_callback(c) ==
  /\ Enter(c, "login")
  /\ IF ~req[c].claims.granted
       THEN /\ Return(c, Response(400, "Login failed"))
            /\ session' = session
       ELSE /\ Return(c, Redirect)
            /\ session' = [session EXCEPT ![c] =
                             SessionFor(req[c].claims.email, req[c].claims.roles)]
  /\ UNCHANGED << now, Disk, req, ops, faults >>

logout(c) ==
  /\ Enter(c, "logout")
  /\ session' = [session EXCEPT ![c] = NoUser]
  /\ Return(c, Response(302, "logout"))
  /\ UNCHANGED << now, Disk, req, ops, faults >>

\* -------------------------------------------------------------- upload_file
\* Lines 515-535: the checks, and the storage key.
upload_file(c) ==
  /\ Enter(c, "upload")
  /\ LET file == req[c].file IN
     IF ~session[c].present THEN Return(c, Redirect)
     ELSE IF ~is_admin(session[c])
       THEN Return(c, Response(403, "Unauthorized: Only administrators can upload files"))
     ELSE IF file.content_length > MAX_FILE_SIZE
       THEN Return(c, Response(413, "Request Entity Too Large"))
     ELSE IF ~file.present THEN Return(c, Redirect)
     ELSE IF file.filename = <<>> THEN Return(c, Redirect)
     ELSE IF allowed_file(file.filename)
       THEN LET original_filename == secure_filename(file.filename)
                key == StorageKey(session[c], now, original_filename)
            IN  GotoG(c, "u_open",
                      [NoLoc EXCEPT !.original_filename = original_filename,
                                    !.filename = key],
                      [ghost EXCEPT !.began = @ \cup {key}])
     ELSE Return(c, Response(400, "Invalid file type"))
  /\ UNCHANGED << now, session, Disk, req, ops, faults >>

\* Line 538, file.save: open(filepath, "wb") creates the file or truncates it.
upload_open(c) ==
  /\ pc[c] = "u_open"
  /\ LET k == loc[c].filename IN
     \/ /\ k \in DOMAIN uploads
        /\ blobInodes' = [blobInodes EXCEPT ![uploads[k]] = <<>>]
        /\ uploads' = uploads
        /\ Goto(c, "u_write", [loc[c] EXCEPT !.fd = uploads[k]])
        /\ faults' = faults
     \/ /\ k \notin DOMAIN uploads
        /\ LET n == FreeInode(blobInodes) IN
             /\ blobInodes' = Put(blobInodes, n, <<>>)
             /\ uploads' = Put(uploads, k, n)
             /\ Goto(c, "u_write", [loc[c] EXCEPT !.fd = n])
        /\ faults' = faults
     \/ /\ CanFail
        /\ faults' = faults + 1
        /\ Return(c, Unhandled)
        /\ UNCHANGED << uploads, blobInodes >>
  /\ UNCHANGED << now, session, metadata, metaInodes, req, ops >>

\* Line 538, file.save: the bytes are written and the file is closed.
upload_write(c) ==
  /\ pc[c] = "u_write"
  /\ \/ /\ Goto(c, "u_stat", [loc[c] EXCEPT !.fd = 0])
        /\ blobInodes' =
             Collect([blobInodes EXCEPT ![loc[c].fd] = Overlay(@, req[c].file.content)],
                     uploads, OpenBlobs(Clients \ {c}))
        /\ faults' = faults
     \/ /\ CanFail
        /\ faults' = faults + 1
        /\ Return(c, Unhandled)
        /\ blobInodes' = Collect(blobInodes, uploads, OpenBlobs(Clients \ {c}))
  /\ UNCHANGED << now, session, uploads, metadata, metaInodes, req, ops >>

\* Lines 76-77, save_file_metadata: the upload date, then the size of the file
\* that now stands under the key.
upload_stat(c) ==
  /\ pc[c] = "u_stat"
  /\ LET k == loc[c].filename IN
     IF HasBlob(k)
       THEN Goto(c, "m_open", [loc[c] EXCEPT !.upload_date = now, !.size = Len(BlobOf(k))])
       ELSE Return(c, Unhandled)
  /\ UNCHANGED << now, session, Disk, req, ops, faults >>

\* Line 80, save_file_metadata: open(metadata_path, "w").
metadata_open(c) ==
  /\ pc[c] = "m_open"
  /\ LET k == loc[c].filename
         g == MetaChanged(KeyWritten(ghost, k))
     IN
     \/ /\ k \in DOMAIN metadata
        /\ metaInodes' = [metaInodes EXCEPT ![metadata[k]] = EmptyText]
        /\ metadata' = metadata
        /\ GotoG(c, "m_dump", [loc[c] EXCEPT !.fd = metadata[k]], g)
        /\ faults' = faults
     \/ /\ k \notin DOMAIN metadata
        /\ LET n == FreeInode(metaInodes) IN
             /\ metaInodes' = Put(metaInodes, n, EmptyText)
             /\ metadata' = Put(metadata, k, n)
             /\ GotoG(c, "m_dump", [loc[c] EXCEPT !.fd = n], g)
        /\ faults' = faults
     \/ /\ CanFail
        /\ faults' = faults + 1
        /\ Return(c, Unhandled)
        /\ UNCHANGED << metadata, metaInodes >>
  /\ UNCHANGED << now, session, uploads, blobInodes, req, ops >>

\* The record save_file_metadata builds (lines 72-78).
Metadata(c) ==
  [ filename |-> loc[c].filename,
    original_filename |-> loc[c].original_filename,
    user_email |-> session[c].preferred_username,
    upload_date |-> loc[c].upload_date,
    size |-> loc[c].size, parses |-> TRUE ]

\* Lines 81-82 and 543: json.dump writes the record, the file is closed, and
\* upload_file redirects to the home page.
metadata_dump(c) ==
  /\ pc[c] = "m_dump"
  /\ LET held == OpenMetas(Clients \ {c})
         done == [ key |-> loc[c].filename, filename |-> req[c].file.filename,
                   content |-> req[c].file.content ]
     IN
     \/ /\ ReturnG(c, Redirect,
                   MetaChanged([ghost EXCEPT !.uploaded = @ \cup {done}]))
        /\ metaInodes' =
             Collect([metaInodes EXCEPT ![loc[c].fd] = OverlayText(@, JsonText(Metadata(c)))],
                     metadata, held)
        /\ faults' = faults
     \/ /\ CanFail
        /\ faults' = faults + 1
        /\ Return(c, Unhandled)
        /\ metaInodes' = Collect(metaInodes, metadata, held)
  /\ UNCHANGED << now, session, uploads, blobInodes, metadata, req, ops >>

\* ------------------------------------------------------- get_file_metadata
NotFound == Response(404, "File not found")

\* Line 65 of get_file_metadata, as download_file and preview_file reach it:
\* os.path.exists(metadata_path).
Lookup(c, filename) ==
  IF filename \in DOMAIN metadata
    THEN Goto(c, "g_load", [NoLoc EXCEPT !.filename = filename])
    ELSE Return(c, NotFound)

\* Lines 66-67: open the file and json.load it.  A file that has gone since
\* line 65, or text that is no JSON, raises out of the handler.
metadata_load(c) ==
  /\ pc[c] = "g_load"
  /\ LET k == loc[c].filename IN
     IF HasRecord(k)
       THEN Goto(c, IF req[c].op = "delete" THEN "x_exists" ELSE "s_exists",
                 [loc[c] EXCEPT !.md = << RecordOf(k) >>])
       ELSE Return(c, Unhandled)
  /\ UNCHANGED << now, session, Disk, req, ops, faults >>

\* ------------------------------------------ download_file and preview_file
\* download_file without the test of line 549.
download_without_session(c) ==
  /\ Enter(c, "download")
  /\ Lookup(c, req[c].key)
  /\ UNCHANGED << now, session, Disk, req, ops, faults >>
download_file(c) ==
  /\ Enter(c, "download")
  /\ IF ~session[c].present THEN Return(c, Redirect)
     ELSE Lookup(c, req[c].key)
  /\ UNCHANGED << now, session, Disk, req, ops, faults >>

preview_file(c) ==
  /\ Enter(c, "preview")
  /\ IF ~session[c].present THEN Return(c, Redirect)
     ELSE Lookup(c, req[c].key)
  /\ UNCHANGED << now, session, Disk, req, ops, faults >>

\* send_file reached without the test of line 558.
send_without_exists(c) ==
  /\ pc[c] = "s_exists"
  /\ Goto(c, "s_open", loc[c])
  /\ UNCHANGED << now, session, Disk, req, ops, faults >>
\* Lines 558 and 573: os.path.exists(filepath).
send_exists(c) ==
  /\ pc[c] = "s_exists"
  /\ IF HasBlob(loc[c].filename)
       THEN Goto(c, "s_open", loc[c])
       ELSE Return(c, NotFound)
  /\ UNCHANGED << now, session, Disk, req, ops, faults >>

\* Lines 559 and 574, send_file: the file is stat'ed and opened; a file that
\* has gone since the line before raises out of the handler.
send_open(c) ==
  /\ pc[c] = "s_open"
  /\ LET k == loc[c].filename IN
     IF HasBlob(k)
       THEN Goto(c, "s_read", [loc[c] EXCEPT !.fd = uploads[k], !.size = Len(BlobOf(k))])
       ELSE Return(c, Unhandled)
  /\ UNCHANGED << now, session, Disk, req, ops, faults >>

\* mimetypes.guess_type, by the extension, whatever its case.
GuessType(name) ==
  LET ext == IF \E i \in 1..Len(name) : name[i] = "." THEN Lower(RSplitExt(name)) ELSE <<>>
  IN  CASE ext = <<"p","d","f">> -> "application/pdf"
        [] ext = <<"p","n","g">> -> "image/png"
        [] ext \in { <<"j","p","g">>, <<"j","p","e","g">> } -> "image/jpeg"
        [] ext = <<"t","x","t">> -> "text/plain"
        [] ext = <<"d","o","c">> -> "application/msword"
        [] ext = <<"d","o","c","x">> -> "application/vnd.openxmlformats-officedocument.wordprocessingml.document"
        [] OTHER -> "application/octet-stream"

\* The response send_file builds: download_file names the attachment after
\* the record's original_filename, preview_file sends the file inline.
SendFile(c, body) ==
  LET md == loc[c].md[1]
      download == req[c].op = "download"
  IN  [ Response(200, "file") EXCEPT
          !.body = body,
          !.content_length = loc[c].size,
          !.attachment = download,
          !.download_name = IF download THEN md.original_filename ELSE <<>>,
          !.mimetype = GuessType(IF download THEN md.original_filename ELSE loc[c].filename) ]

\* send_file removing the file it has sent.
send_read_and_remove(c) ==
  /\ pc[c] = "s_read"
  /\ Return(c, SendFile(c, blobInodes[loc[c].fd]))
  /\ uploads' = Drop(uploads, loc[c].filename)
  /\ blobInodes' = Collect(blobInodes, uploads', OpenBlobs(Clients \ {c}))
  /\ UNCHANGED << now, session, metadata, metaInodes, req, ops, faults >>
\* The response body is read from the open file, which is then closed.
send_read(c) ==
  /\ pc[c] = "s_read"
  /\ Return(c, SendFile(c, blobInodes[loc[c].fd]))
  /\ blobInodes' = Collect(blobInodes, uploads, OpenBlobs(Clients \ {c}))
  /\ UNCHANGED << now, session, uploads, metadata, metaInodes, req, ops, faults >>

\* -------------------------------------------------------------- delete_file
\* jsonify({"success": ..., "error": ...}), status
Json(status, success, error) ==
  [ Response(status, error) EXCEPT !.json = TRUE, !.success = success ]

\* Lines 579-588: the checks, and os.path.exists(metadata_path).
delete_file(c) ==
  /\ Enter(c, "delete")
  /\ IF ~session[c].present THEN Return(c, Json(401, FALSE, "Not authenticated"))
     ELSE IF ~is_admin(session[c])
       THEN Return(c, Json(403, FALSE, "Unauthorized: Only administrators can delete files"))
     ELSE IF req[c].key \in DOMAIN metadata
       THEN Goto(c, "g_load", [NoLoc EXCEPT !.filename = req[c].key])
     ELSE Return(c, Json(404, FALSE, "File not found"))
  /\ UNCHANGED << now, session, Disk, req, ops, faults >>

\* delete_file going past the blob to the metadata file.
delete_past_blob(c) ==
  /\ pc[c] = "x_exists"
  /\ Goto(c, "x_mexists", loc[c])
  /\ UNCHANGED << now, session, Disk, req, ops, faults >>
\* os.remove(filepath) reached without the test of line 595.
delete_without_exists(c) ==
  /\ pc[c] = "x_exists"
  /\ Goto(c, "x_remove", loc[c])
  /\ UNCHANGED << now, session, Disk, req, ops, faults >>
\* Line 595: os.path.exists(filepath).
delete_exists(c) ==
  /\ pc[c] = "x_exists"
  /\ Goto(c, IF HasBlob(loc[c].filename) THEN "x_remove" ELSE "x_mexists", loc[c])
  /\ UNCHANGED << now, session, Disk, req, ops, faults >>

\* Lines 600-601: the OSError of os.remove is caught; its text, which names
\* the path, is the response's error.
RemoveFailed(folder) ==
  Json(500, FALSE, IF folder = UPLOAD_FOLDER THEN "OSError: uploads/<filename>"
                   ELSE "OSError: metadata/<filename>.json")

\* Line 596: os.remove(filepath).
delete_remove(c) ==
  /\ pc[c] = "x_remove"
  /\ LET k == loc[c].filename IN
     \/ /\ k \in DOMAIN uploads
        /\ uploads' = Drop(uploads, k)
        /\ blobInodes' = Collect(blobInodes, Drop(uploads, k), OpenBlobs(Clients))
        /\ GotoG(c, "x_mexists", loc[c],
                 [KeyRemoved(ghost, k) EXCEPT !.removed[c] = @ \cup {UPLOAD_FOLDER}])
        /\ faults' = faults
     \/ /\ k \notin DOMAIN uploads
        /\ Return(c, RemoveFailed(UPLOAD_FOLDER))
        /\ UNCHANGED << uploads, blobInodes, faults >>
     \/ /\ CanFail
        /\ faults' = faults + 1
        /\ Return(c, RemoveFailed(UPLOAD_FOLDER))
        /\ UNCHANGED << uploads, blobInodes >>
  /\ UNCHANGED << now, session, metadata, metaInodes, req, ops >>

\* Lines 597 and 599: os.path.exists(metadata_path); with no file there the
\* handler answers success.
delete_metadata_exists(c) ==
  /\ pc[c] = "x_mexists"
  /\ IF loc[c].filename \in DOMAIN metadata
       THEN Goto(c, "x_mremove", loc[c])
       ELSE ReturnG(c, Json(200, TRUE, ""),
                    [ghost EXCEPT !.deleted = @ \cup {loc[c].filename}])
  /\ UNCHANGED << now, session, Disk, req, ops, faults >>

\* os.remove left out.
UnlinkSkipped(dir, k) == dir
\* What os.remove(metadata_path) leaves of the directory.
Unlink(dir, k) == Drop(dir, k)

\* Lines 598-599: os.remove(metadata_path), and success.
delete_metadata_remove(c) ==
  /\ pc[c] = "x_mremove"
  /\ LET k == loc[c].filename IN
     \/ /\ k \in DOMAIN metadata
        /\ metadata' = Unlink(metadata, k)
        /\ metaInodes' = Collect(metaInodes, Unlink(metadata, k), OpenMetas(Clients))
        /\ ReturnG(c, Json(200, TRUE, ""),
                   [MetaChanged(KeyRemoved(ghost, k)) EXCEPT
                      !.deleted = @ \cup {k}, !.removed[c] = @ \cup {METADATA_FOLDER}])
        /\ faults' = faults
     \/ /\ k \notin DOMAIN metadata
        /\ Return(c, RemoveFailed(METADATA_FOLDER))
        /\ UNCHANGED << metadata, metaInodes, faults >>
     \/ /\ CanFail
        /\ faults' = faults + 1
        /\ Return(c, RemoveFailed(METADATA_FOLDER))
        /\ UNCHANGED << metadata, metaInodes >>
  /\ UNCHANGED << now, session, uploads, blobInodes, req, ops >>

\* ------------------------------------------------------ home, get_all_files
\* Every order os.listdir may give the names in.
Orders(S) ==
  { q \in [1..Cardinality(S) -> S] : \A i, j \in 1..Cardinality(S) : q[i] = q[j] => i = j }

\* list.sort(key=upload_date, reverse=True): newest first, and records of one
\* upload date in the order they were read (the sort is stable).
RECURSIVE InsertByDate(_, _), SortNewestFirst(_)
InsertByDate(sorted, md) ==
  IF sorted = <<>> THEN << md >>
  ELSE IF DateLE(md.upload_date, Head(sorted).upload_date)
    THEN << Head(sorted) >> \o InsertByDate(Tail(sorted), md)
    ELSE << md >> \o sorted
SortNewestFirst(files) ==
  IF files = <<>> THEN <<>>
  ELSE InsertByDate(SortNewestFirst(SubSeq(files, 1, Len(files) - 1)), files[Len(files)])

\* The page home renders for a logged-in user, with the files it lists.
Page(files) == [ Response(200, "vault") EXCEPT !.files = SortNewestFirst(files) ]

\* Lines 130-136 and 87-90: with no user the login page; else the names in
\* METADATA_FOLDER, in the order os.listdir gives them.
\* os.listdir: the names in the folder itself; a name with a separator in it
\* is a path to somewhere else.
Listdir(dir) == { k \in DOMAIN dir : "/" \notin Range(k) }
home(c) ==
  /\ Enter(c, "list")
  /\ IF ~session[c].present THEN Return(c, Response(200, "Not logged in"))
     ELSE LET g == [ghost EXCEPT !.undisturbed[c] = TRUE] IN
          IF Listdir(metadata) = {} THEN ReturnG(c, Page(<<>>), g)
          ELSE \E order \in Orders(Listdir(metadata)) :
                 GotoG(c, "l_load", [NoLoc EXCEPT !.todo = order], g)
  /\ UNCHANGED << now, session, Disk, req, ops, faults >>

\* The try block without its except: whatever the file holds is appended.
ReadIntoUnchecked(all_files, k) ==
  IF k \in DOMAIN metadata THEN Append(all_files, RecordOf(k)) ELSE all_files
\* Lines 92-97: what the try block makes of one metadata file: the record is
\* appended; a file that is gone or is no JSON is passed over.
ReadInto(all_files, k) ==
  IF HasRecord(k) THEN Append(all_files, RecordOf(k)) ELSE all_files

\* Lines 90-100: the next metadata file is read; after the last one the list
\* is sorted and rendered.
list_load(c) ==
  /\ pc[c] = "l_load"
  /\ LET all_files == ReadInto(loc[c].all_files, Head(loc[c].todo))
     IN  IF Tail(loc[c].todo) = <<>>
           THEN Return(c, Page(all_files))
           ELSE Goto(c, "l_load", [loc[c] EXCEPT !.todo = Tail(@), !.all_files = all_files])
  /\ UNCHANGED << now, session, Disk, req, ops, faults >>

\* ------------------------------------------------------------ specification
\* The keys a client asks for: those of the files that are or were there (in
\* either directory, in an upload under way, in a request served last), and
\* one that never is.
AbsentKey == <<"n","o","n","e">>
RequestKeys ==
  DOMAIN uploads \cup DOMAIN metadata
    \cup { loc[c].filename : c \in { d \in Clients : loc[d].filename # <<>> } }
    \cup { req[c].key : c \in { d \in Clients : req[d].key # <<>> } }
    \cup { AbsentKey }
\* The requests of the vault.
Requests ==
  { [NoReq EXCEPT !.op = "upload", !.file = f] : f \in Files }
    \cup { [NoReq EXCEPT !.op = op, !.key = k] :
             op \in {"download", "preview", "delete"}, k \in RequestKeys }
    \cup { [NoReq EXCEPT !.op = "list"] }
\* Logging in and out.
AuthRequests ==
  { [NoReq EXCEPT !.op = "login", !.claims = [ granted |-> g, email |-> e, roles |-> r ]] :
      g \in BOOLEAN, e \in ClaimEmails, r \in ClaimRoles }
    \cup { [NoReq EXCEPT !.op = "logout"] }

\* A file that an earlier upload by AL left: "al_0_r.pdf", one byte long.
SeedName == <<"r",".","p","d","f">>
SeedKey == StorageKey(SessionFor(AL, {ADMIN_ROLE}), Epoch, secure_filename(SeedName))
SeedRecord ==
  [ filename |-> SeedKey, original_filename |-> secure_filename(SeedName),
    user_email |-> AL, upload_date |-> Epoch, size |-> 1, parses |-> TRUE ]

\* The directories are empty or hold the seed file.
InitDisk ==
  \/ /\ uploads = Empty /\ metadata = Empty
     /\ blobInodes = Empty /\ metaInodes = Empty
     /\ ghost = NoGhost
  \/ /\ uploads = Put(Empty, SeedKey, 1) /\ metadata = Put(Empty, SeedKey, 1)
     /\ blobInodes = Put(Empty, 1, <<1>>) /\ metaInodes = Put(Empty, 1, JsonText(SeedRecord))
     /\ ghost = [NoGhost EXCEPT !.uploaded =
                   { [ key |-> SeedKey, filename |-> SeedName, content |-> <<1>> ] }]

InitRest ==
  /\ now = Epoch
  /\ InitDisk
  /\ pc = [ c \in Clients |-> "idle" ]
  /\ req = [ c \in Clients |-> NoReq ]
  /\ loc = [ c \in Clients |-> NoLoc ]
  /\ resp = [ c \in Clients |-> NoResp ]
  /\ ops = 0
  /\ faults = 0

\* The vault with its users logged in (a session is a cookie the client
\* keeps): each client holds no session or the session of a token AL got.
Init ==
  /\ session \in [ Clients -> { NoUser } \cup { SessionFor(AL, r) : r \in StartRoles } ]
  /\ InitRest

\* The handlers of the vault.
Next ==
  \/ Tick
  \/ \E c \in Clients, r \in Requests : request(c, r)
  \/ \E c \in Clients : upload_file(c)
  \/ \E c \in Clients : upload_open(c)
  \/ \E c \in Clients : upload_write(c)
  \/ \E c \in Clients : upload_stat(c)
  \/ \E c \in Clients : metadata_open(c)
  \/ \E c \in Clients : metadata_dump(c)
  \/ \E c \in Clients : download_file(c)
  \/ \E c \in Clients : preview_file(c)
  \/ \E c \in Clients : delete_file(c)
  \/ \E c \in Clients : metadata_load(c)
  \/ \E c \in Clients : send_exists(c)
  \/ \E c \in Clients : send_open(c)
  \/ \E c \in Clients : send_read(c)
  \/ \E c \in Clients : delete_exists(c)
  \/ \E c \in Clients : delete_remove(c)
  \/ \E c \in Clients : delete_metadata_exists(c)
  \/ \E c \in Clients : delete_metadata_remove(c)
  \/ \E c \in Clients : home(c)
  \/ \E c \in Clients : list_load(c)

Spec == Init /\ [][Next]_vars

\* The vault with nobody logged in at first, and the log-in and log-out
\* routes next to the others.
InitAuth ==
  /\ session = [ c \in Clients |-> NoUser ]
  /\ InitRest

NextAuth ==
  \/ Next
  \/ \E c \in Clients, r \in AuthRequests : request(c, r)
  \/ \E c \in Clients : auth_callback(c)
  \/ \E c \in Clients : logout(c)

SpecAuth == InitAuth /\ [][NextAuth]_vars

\* --------------------------------------------------------------- properties
NonAdmin(c) == session[c].present /\ ADMIN_ROLE \notin session[c].roles
Others(c) == Clients \ {c}
UploadLabels == {"u_open", "u_write", "u_stat", "m_open", "m_dump"}
Listed(r) == { r.files[i] : i \in 1..Len(r.files) }

\* C1: when the handler of an Upload or a Delete runs for a logged-in principal
\* without the admin role, it answers 403 in that step, and both directories
\* and every file in them are afterwards as they were before.
C1_NonAdminDenied ==
  [][\A c \in Clients :
       (NonAdmin(c) /\ pc[c] = "recv" /\ req[c].op \in {"upload", "delete"} /\ pc'[c] # "recv")
         => (pc'[c] = "idle" /\ resp'[c].status = 403 /\ Disk' = Disk)]_vars

\* A viewer's upload of an allowed file and a viewer's delete of the seed file
\* were both denied, and the seed file is there.
C1_Witness ==
  \E c, d \in Clients :
    /\ NonAdmin(c) /\ NonAdmin(d) /\ Idle(c) /\ Idle(d)
    /\ req[c].op = "upload" /\ allowed_file(req[c].file.filename) /\ resp[c].status = 403
    /\ req[d].op = "delete" /\ req[d].key = SeedKey /\ resp[d].status = 403
    /\ HasBlob(SeedKey) /\ HasRecord(SeedKey)

\* C2: the key upload_file assigns is bound to no blob and to no metadata
\* file, and is not the key of another upload under way.
C2_FreshKey ==
  [][\A c \in Clients :
       (pc[c] = "recv" /\ pc'[c] = "u_open")
         => /\ loc'[c].filename \notin DOMAIN uploads \cup DOMAIN metadata
            /\ \A d \in Others(c) :
                 pc[d] \in UploadLabels => loc[d].filename # loc'[c].filename]_vars

\* C3: with no handler running, a key has a blob exactly when it has a
\* metadata record.
C3_NoOrphans ==
  (\A c \in Clients : Idle(c))
    => \A k \in DOMAIN uploads \cup DOMAIN metadata : HasBlob(k) <=> HasRecord(k)

\* C4: a download that came in after an upload of (F, B) had answered success
\* for its key, with no file of the key removed since, answers with the bytes
\* B under the name F.
C4_RoundTrip ==
  \A c \in Clients :
    (Idle(c) /\ session[c].present /\ req[c].op = "download")
      => \A u \in ghost.expect[c] :
           /\ resp[c].status = 200
           /\ resp[c].body = u.content
           /\ resp[c].download_name = u.filename

\* C5: a download of a key, and a listing, that came in after a delete had
\* answered success for the key, with no upload having written the key's
\* metadata since: the download answers 404 and the listing omits the key.
C5_DeletedStaysGone ==
  \A c \in Clients :
    (Idle(c) /\ session[c].present)
      => /\ (req[c].op = "download" /\ req[c].key \in ghost.after[c])
              => resp[c].status = 404
         /\ req[c].op = "list"
              => \A md \in Listed(resp[c]) : md.filename \notin ghost.after[c]

\* A download of the seed key answered 404 after another client's delete of
\* it had answered success.
C5_Witness ==
  \E c \in Clients, d \in Clients :
    /\ Idle(c) /\ session[c].present /\ req[c].op = "download"
    /\ req[c].key = SeedKey /\ SeedKey \in ghost.after[c]
    /\ resp[c].status = 404
    /\ Idle(d) /\ req[d].op = "delete" /\ req[d].key = SeedKey /\ resp[d].success

\* C6: when a listing returns with no other handler running, every record in
\* it has a blob under its key.
C6_ListedHaveBlobs ==
  [][\A c \in Clients :
       (pc[c] = "l_load" /\ pc'[c] = "idle" /\ \A d \in Others(c) : Idle(d))
         => \A md \in Listed(resp'[c]) : HasBlob(md.filename)]_vars

\* C7: a listing during which no metadata file changed answers 200 with
\* exactly the records of the metadata files that parse, each once.
WellFormed == { RecordOf(k) : k \in { x \in DOMAIN metadata : HasRecord(x) } }
C7_CorruptSkipped ==
  \A c \in Clients :
    (Idle(c) /\ session[c].present /\ req[c].op = "list" /\ ghost.undisturbed[c])
      => /\ resp[c].status = 200
         /\ Listed(resp[c]) = WellFormed
         /\ Len(resp[c].files) = Cardinality(WellFormed)

\* An undisturbed listing returned the one record that parses, of two
\* metadata files.
C7_Witness ==
  \E c \in Clients :
    /\ Idle(c) /\ session[c].present /\ req[c].op = "list" /\ ghost.undisturbed[c]
    /\ Cardinality(WellFormed) = 1
    /\ Cardinality(DOMAIN metadata) = 2
    /\ Len(resp[c].files) = 1

\* C8: an upload that fails at the metadata write leaves no blob under its key
\* and answers 500; and no upload returns leaving a blob under its key without
\* a metadata record.
C8_UploadRollsBack ==
  [][\A c \in Clients :
       (req[c].op = "upload" /\ pc[c] \in UploadLabels /\ pc'[c] = "idle")
         => /\ (pc[c] \in {"m_open", "m_dump"} /\ resp'[c].status # 302)
                 => (resp'[c].status = 500 /\ loc[c].filename \notin DOMAIN uploads')
            /\ loc[c].filename \in DOMAIN uploads'
                 => /\ loc[c].filename \in DOMAIN metadata'
                    /\ metaInodes'[metadata'[loc[c].filename]].val.parses]_vars

\* The kind of a response, in the terms of the error taxonomy.
Kind(r) ==
  CASE r.status \in {200, 302} -> "Success"
    [] r.status \in {400, 413} -> "ValidationError"
    [] r.status \in {401, 403} -> "AuthorizationError"
    [] r.status = 404 -> "NotFoundError"
    [] r.status = 500 -> "StorageError"
    [] OTHER -> "None"

\* C9: a delete that failed having removed exactly one of the two files
\* answers a PartialFailure.
C9_PartialFailure ==
  \A c \in Clients :
    (Idle(c) /\ req[c].op = "delete" /\ resp[c].json /\ ~resp[c].success
       /\ Cardinality(ghost.removed[c]) = 1)
      => Kind(resp[c]) = "PartialFailureError"

\* Lines 118-126: is_image and is_pdf.
is_image(filename) ==
  (IF \E i \in 1..Len(filename) : filename[i] = "." THEN Lower(RSplitExt(filename)) ELSE <<>>)
    \in { <<"p","n","g">>, <<"j","p","g">>, <<"j","p","e","g">> }
is_pdf(filename) ==
  (IF \E i \in 1..Len(filename) : filename[i] = "." THEN Lower(RSplitExt(filename)) ELSE <<>>)
    = <<"p","d","f">>

\* C10: a preview answers with the file's bytes only for a key whose extension
\* is an image's or pdf.
C10_PreviewableOnly ==
  \A c \in Clients :
    (Idle(c) /\ req[c].op = "preview" /\ resp[c].status = 200)
      => (is_image(req[c].key) \/ is_pdf(req[c].key))

Recognized == {ADMIN_ROLE, VIEWER_ROLE}
Denied(r) == r.status \in {401, 403}

\* C11: a log-in whose role claims hold neither the admin nor the viewer role
\* leaves a session that is_viewer and is_admin both reject; and every request
\* of a session whose roles hold neither is answered by a denial in its
\* handler's first step.
C11_UnrecognizedDenied ==
  [][\A c \in Clients :
       /\ (pc[c] = "recv" /\ req[c].op = "login" /\ req[c].claims.granted
             /\ req[c].claims.roles \cap Recognized = {} /\ pc'[c] = "idle")
            => (~is_viewer(session'[c]) /\ ~is_admin(session'[c]))
       /\ (pc[c] = "recv" /\ session[c].present /\ session[c].roles \cap Recognized = {}
             /\ req[c].op \in {"upload", "delete", "list", "download", "preview"}
             /\ pc'[c] # "recv")
            => (pc'[c] = "idle" /\ Denied(resp'[c]))]_vars

\* Nothing but deletes has touched the directories: no storage fault, no
\* upload done or under way.
OnlyDeletes == faults = 0 /\ ghost.began = {}

\* C12: with nothing but deletes running beside it, a download or preview
\* answers the whole file or 404, and a listing answers 200 with whole
\* records; none ends in an unhandled error or with other content.
C12_ReadersSurviveDelete ==
  \A c \in Clients :
    (Idle(c) /\ session[c].present /\ OnlyDeletes
       /\ req[c].op \in {"list", "download", "preview"})
      => /\ resp[c].status \in {200, 404}
         /\ (req[c].op # "list" /\ resp[c].status = 200) => resp[c].body = <<1>>
         /\ req[c].op = "list"
              => (resp[c].status = 200 /\ Listed(resp[c]) \subseteq {SeedRecord})

\* C13: when upload_file runs for an admin with an empty filename, an
\* extension that is not allowed or a body over the limit, it answers a
\* validation error in that step and leaves both directories as they were.
C13_InvalidUploadRejected ==
  [][\A c \in Clients :
       (pc[c] = "recv" /\ req[c].op = "upload" /\ pc'[c] # "recv"
          /\ session[c].present /\ is_admin(session[c]) /\ req[c].file.present
          /\ \/ req[c].file.filename = <<>>
             \/ ~allowed_file(req[c].file.filename)
             \/ req[c].file.content_length > MAX_FILE_SIZE)
         => (pc'[c] = "idle" /\ Kind(resp'[c]) = "ValidationError" /\ Disk' = Disk)]_vars

\* The key names a file of the storage folder itself.
InsideRoot(k) == "/" \notin Range(k) /\ k \notin { <<".">>, <<".", ".">> }

\* C14: the storage key upload_file builds holds no path separator and is no
\* traversal segment.
C14_KeyInsideRoot ==
  [][\A c \in Clients :
       (pc[c] = "recv" /\ pc'[c] = "u_open") => InsideRoot(loc'[c].filename)]_vars

LoggedIn(c) == Idle(c) /\ req[c].op = "login" /\ req[c].claims.granted

\* C15: two clients that logged in with the same role claims hold sessions
\* with the same roles, which is_admin and is_viewer judge alike, whatever
\* their addresses.
C15_RolesFromClaimsOnly ==
  \A c, d \in Clients :
    (LoggedIn(c) /\ LoggedIn(d) /\ req[c].claims.roles = req[d].claims.roles)
      => /\ session[c].roles = session[d].roles
         /\ is_admin(session[c]) <=> is_admin(session[d])
         /\ is_viewer(session[c]) <=> is_viewer(session[d])

\* The characters in code-point order, and the order of strings it gives.
CodePoints == <<"-", ".", "/">> \o Digits \o <<"@">> \o UpperCase \o <<"_">> \o LowerCase
Ord(ch) == CHOOSE i \in 1..Len(CodePoints) : CodePoints[i] = ch
RECURSIVE StrLess(_, _)
StrLess(a, b) ==
  IF b = <<>> THEN FALSE
  ELSE IF a = <<>> THEN TRUE
  ELSE IF Head(a) = Head(b) THEN StrLess(Tail(a), Tail(b))
  ELSE Ord(Head(a)) < Ord(Head(b))

\* C16: in a listing no record comes before a newer one, and of two records
\* of the same upload time the one with the smaller key comes first.
C16_ListOrder ==
  \A c \in Clients :
    (Idle(c) /\ session[c].present /\ req[c].op = "list" /\ resp[c].status = 200)
      => \A i, j \in 1..Len(resp[c].files) :
           i < j =>
             LET a == resp[c].files[i]
                 b == resp[c].files[j]
             IN  /\ DateLE(b.upload_date, a.upload_date)
                 /\ a.upload_date = b.upload_date => StrLess(a.filename, b.filename)

\* C17: with no upload under way and no storage fault so far, the size in
\* every metadata record is the length of the blob under the record's key.
C17_SizeMatchesBlob ==
  (faults = 0 /\ \A c \in Clients : pc[c] \notin UploadLabels)
    => \A k \in DOMAIN metadata :
         (HasRecord(k) /\ HasBlob(k)) => RecordOf(k).size = Len(BlobOf(k))

\* An upload by another client is writing the key c asks for.
UploadUnderWay(c) ==
  \E d \in Others(c) : pc[d] \in UploadLabels /\ loc[d].filename = req[c].key

\* C18: with no storage fault, a download or preview that returns while an
\* upload is writing its key answers 404 or the whole content of an upload,
\* never an error and never part of a content.
C18_ReadersSeeWholeWrites ==
  [][\A c \in Clients :
       (faults = 0 /\ session[c].present /\ req[c].op \in {"download", "preview"}
          /\ pc[c] # "idle" /\ pc'[c] = "idle" /\ UploadUnderWay(c))
         => /\ resp'[c].status \in {200, 404}
            /\ resp'[c].status = 200 => resp'[c].body \in Contents]_vars

\* C19: while the key of a download or preview has a metadata record and no
\* blob, each step of the handler leaves the directories as they are and goes
\* on to the next test, and the test for the blob answers 404.
C19_MissingBlobNotFound ==
  [][\A c \in Clients :
       (session[c].present /\ req[c].op \in {"download", "preview"}
          /\ pc[c] \in {"recv", "g_load", "s_exists"} /\ pc'[c] # pc[c]
          /\ HasRecord(req[c].key) /\ ~HasBlob(req[c].key))
         => /\ Disk' = Disk
            /\ pc[c] = "recv" => pc'[c] = "g_load"
            /\ pc[c] = "g_load" => pc'[c] = "s_exists"
            /\ pc[c] = "s_exists" => (pc'[c] = "idle" /\ resp'[c].status = 404)]_vars

\* A download or preview answered 404 for a key whose blob another client's
\* delete had removed before failing to remove the metadata.
C19_Witness ==
  \E c \in Clients, d \in Clients :
    /\ Idle(c) /\ session[c].present /\ req[c].op \in {"download", "preview"}
    /\ resp[c].status = 404
    /\ HasRecord(req[c].key) /\ ~HasBlob(req[c].key)
    /\ Idle(d) /\ req[d].op = "delete" /\ req[d].key = req[c].key
    /\ ghost.removed[d] = {UPLOAD_FOLDER}

\* What the two folders hold: each name with the content of its file.
Store ==
  [ blobs |-> [ k \in DOMAIN uploads |-> blobInodes[uploads[k]] ],
    records |-> [ k \in DOMAIN metadata |-> metaInodes[metadata[k]] ] ]

C21_AnonymousTurnedAway ==
  [][\A c \in Clients :
       (~session[c].present /\ pc[c] = "recv" /\ pc'[c] # "recv"
          /\ req[c].op \in {"upload", "download", "preview", "delete"})
         => /\ pc'[c] = "idle" /\ resp'[c].body = <<>> /\ Disk' = Disk
            /\ IF req[c].op = "delete" THEN resp'[c].status = 401 /\ ~resp'[c].success
               ELSE resp'[c] = Redirect]_vars

\* The seed file is there, and a client with no session has been turned away
\* from downloading it and another from deleting it.
C21_Witness ==
  \E c, d \in Clients :
    /\ ~session[c].present /\ Idle(c) /\ req[c].op = "download" /\ req[c].key = SeedKey
    /\ resp[c] = Redirect
    /\ ~session[d].present /\ Idle(d) /\ req[d].op = "delete" /\ req[d].key = SeedKey
    /\ resp[d].status = 401
    /\ HasBlob(SeedKey) /\ HasRecord(SeedKey)

DeleteLabels == {"recv", "g_load", "x_exists", "x_mexists", "x_mremove"}

\* C22: while the key of an admin's delete has a metadata record and no blob,
\* each step of the handler goes on to the next, never to the removal of the
\* blob, and changes nothing until the last; the last, when os.remove raises
\* nothing, removes the metadata file and answers success, and the key has
\* neither file.
C22_DeleteOfRecordWithoutBlob ==
  [][\A c \in Clients :
       (session[c].present /\ is_admin(session[c]) /\ req[c].op = "delete"
          /\ pc[c] \in DeleteLabels /\ pc'[c] # pc[c]
          /\ HasRecord(req[c].key) /\ ~HasBlob(req[c].key))
         => /\ pc[c] = "recv" => (pc'[c] = "g_load" /\ Disk' = Disk)
            /\ pc[c] = "g_load" => (pc'[c] = "x_exists" /\ Disk' = Disk)
            /\ pc[c] = "x_exists" => (pc'[c] = "x_mexists" /\ Disk' = Disk)
            /\ pc[c] = "x_mexists" => (pc'[c] = "x_mremove" /\ Disk' = Disk)
            /\ (pc[c] = "x_mremove" /\ faults' = faults)
                 => /\ pc'[c] = "idle" /\ resp'[c].status = 200 /\ resp'[c].success
                    /\ req[c].key \notin DOMAIN metadata' \cup DOMAIN uploads']_vars

\* An admin's delete has answered success having removed the metadata file
\* only, the blob having gone before, and the key has neither file.
C22_Witness ==
  \E c \in Clients :
    /\ Idle(c) /\ is_admin(session[c]) /\ req[c].op = "delete" /\ req[c].key = SeedKey
    /\ resp[c].status = 200 /\ resp[c].success
    /\ ghost.removed[c] = {METADATA_FOLDER}
    /\ SeedKey \notin DOMAIN metadata \cup DOMAIN uploads

\* C23: while a key has a blob and no metadata record, and no upload is under
\* way, a step of a download, a preview or an admin's delete of the key
\* changes nothing in either folder, and the handler answers 404.
C23_OrphanUnreachable ==
  [][\A c \in Clients :
       (session[c].present /\ req[c].op \in {"download", "preview", "delete"}
          /\ (req[c].op = "delete" => is_admin(session[c]))
          /\ pc[c] \in {"recv", "g_load"} /\ pc'[c] # pc[c]
          /\ HasBlob(req[c].key) /\ ~HasRecord(req[c].key)
          /\ \A d \in Clients : pc[d] \notin UploadLabels)
         => /\ Disk' = Disk
            /\ pc'[c] \in {"idle", "g_load"}
            /\ pc'[c] = "idle" => resp'[c].status = 404]_vars

\* C24: in a delete with no other request under way since it came in, the
\* metadata file is removed only when the key has no blob; and when the
\* delete fails at a removal, the key's record is there, and the blob is there
\* only if the delete has removed nothing.
C24_BlobGoesFirst ==
  [][\A c \in Clients :
       (req[c].op = "delete" /\ ghost.alone[c] /\ pc'[c] # pc[c] /\ pc[c] # "idle")
         => LET k == req[c].key IN
            /\ (k \in DOMAIN metadata /\ k \notin DOMAIN metadata') => k \notin DOMAIN uploads
            /\ (pc[c] \in {"x_remove", "x_mremove"} /\ pc'[c] = "idle" /\ resp'[c].status = 500)
                 => /\ HasRecord(k)'
                    /\ k \in DOMAIN uploads' => (Disk' = Disk /\ ghost'.removed[c] = {})
                    /\ METADATA_FOLDER \notin ghost'.removed[c]]_vars

\* A delete that ran alone has removed the blob and failed at the metadata
\* file: the key has its record and no blob.
C24_Witness ==
  \E c \in Clients :
    /\ Idle(c) /\ req[c].op = "delete" /\ ghost.alone[c]
    /\ resp[c].json /\ resp[c].status = 500
    /\ ghost.removed[c] = {UPLOAD_FOLDER}
    /\ HasRecord(req[c].key) /\ ~HasBlob(req[c].key)

====
